---- MODULE Spec2Model ----
(***************************************************************************)
(* ion::port::Barrier (ion/port/barrier.cc): a reusable thread rendezvous  *)
(* barrier with three build-time strategies:                               *)
(*   "turnstile" - Windows, two counting semaphores (lines 63-108)         *)
(*   "native"    - Linux/QNX, pthread_barrier_t      (lines 117-136)       *)
(*   "condvar"   - other POSIX, mutex + two condition variables            *)
(*                                                    (lines 148-195)      *)
(* One behaviour of the model is one build (strategy), one constructor     *)
(* argument (thread_count_), and a set of threads that each call Wait()    *)
(* `plan` times, followed or overlapped by one destructor call.            *)
(*                                                                         *)
(* Granularity: one step per call of a host primitive or per atomic        *)
(* read-modify-write of a counter.  barrier.h is not part of the sources;  *)
(* wait_count_ (turnstile) and waiting_count_ (native) are taken to be     *)
(* atomic integers, so `(wait_count_ += increment) == limit`,              *)
(* `++waiting_count_` and `--waiting_count_` are single steps.             *)
(*                                                                         *)
(* pthread_cond_wait is modelled with the POSIX semantics: it returns      *)
(* after a broadcast on its condition variable, and it may also return     *)
(* spuriously (CvSpurious, DtorSpurious).                                  *)
(***************************************************************************)
EXTENDS Integers, FiniteSets

\* ------------------------------------------------------------------ bounds
MaxThreads == 3
MaxRounds == 2

Threads == 1 .. MaxThreads
Strategies == {"turnstile", "native", "condvar"}

\* mutex_ holder: a thread id, or one of these two.
Free == 0
Owner == -1

VARIABLES
    strategy,        \* which #if branch of barrier.cc is compiled
    thread_count_,   \* constructor argument
    plan,            \* number of Wait() calls every participant makes
    owner,           \* who destroys: "joins" (after joining all threads) or
                     \* "participant" (a participant back from its last Wait())
    pc,              \* pc[t]: position of thread t
    round,           \* round[t]: number of Wait() calls thread t has started
    wait_count_,     \* turnstile / condvar arrival counter
    exit_count_,     \* condvar exit handshake counter
    waiting_count_,  \* native: threads between ++ and -- in Wait()
    turnstile1_,     \* token count of the first semaphore
    turnstile2_,     \* token count of the second semaphore
    barrier_,        \* native: arrivals held inside pthread_barrier_t
    mutex_,          \* condvar: holder of mutex_
    dpc,             \* position of the destructor
    live,            \* host primitives initialised and not yet destroyed
    fault,           \* a thread used a primitive that is not live
    releases,        \* number of threshold events so far (history)
    shared,          \* shared[k]: bits set in the shared integer of round k
    stale            \* some thread read a shared integer with a bit missing

config == <<strategy, thread_count_, plan, owner>>
counters == <<wait_count_, exit_count_, waiting_count_>>
sems == <<turnstile1_, turnstile2_>>
harness == <<round, shared, stale>>
vars == <<strategy, thread_count_, plan, owner, pc, round, wait_count_,
          exit_count_, waiting_count_, turnstile1_, turnstile2_, barrier_,
          mutex_, dpc, live, fault, releases, shared, stale>>

\* ------------------------------------------------------------ construction
\* is_valid_: thread_count_ > 0 (turnstile, condvar); pthread_barrier_init
\* succeeds exactly for a count > 0 (native).
IsValid == thread_count_ > 0

Primitives(s) ==
    CASE s = "turnstile" -> {"turnstile1_", "turnstile2_"}
      [] s = "native" -> {"barrier_"}
      [] s = "condvar" -> {"condition_", "exit_condition_", "mutex_"}

\* The threads that use the barrier: exactly thread_count_ of them, or any
\* number of threads for the invalid barrier.
Participants == IF thread_count_ = 0 THEN Threads ELSE 1 .. thread_count_

Init ==
    /\ strategy \in Strategies
    /\ thread_count_ \in 0 .. MaxThreads
    /\ plan \in 0 .. MaxRounds
    /\ owner \in {"joins", "participant"}
    /\ pc = [t \in Threads |-> "idle"]
    /\ round = [t \in Threads |-> 0]
    /\ wait_count_ = 0
    /\ exit_count_ = 1
    /\ waiting_count_ = 0
    /\ turnstile1_ = 0
    /\ turnstile2_ = 0
    /\ barrier_ = 0
    /\ mutex_ = Free
    /\ dpc = "idle"
    /\ live = IF thread_count_ > 0 THEN Primitives(strategy) ELSE {}
    /\ fault = FALSE
    /\ releases = 0
    /\ shared = [k \in 1 .. MaxRounds |-> {}]
    /\ stale = FALSE

\* ------------------------------------------------------------ test harness
\* Before its k-th Wait() a thread sets its own bit in the shared integer of
\* round k; after the call returns it reads that integer and compares it
\* with the mask of all participants' bits.
SetBit(t) ==
    /\ round' = [round EXCEPT ![t] = round[t] + 1]
    /\ shared' = [shared EXCEPT ![round[t] + 1] = shared[round[t] + 1] \cup {t}]

ReadBits(t) == stale' = (stale \/ ~(Participants \subseteq shared[round[t]]))

\* Wait() returns to the caller.
Return(t) ==
    /\ pc' = [pc EXCEPT ![t] = "idle"]
    /\ ReadBits(t)

\* A call on a primitive that is not live is undefined: the thread stops
\* (crash or hang), or the call fails and Wait() returns.
Misuse(t) ==
    /\ fault' = TRUE
    /\ \/ pc' = [pc EXCEPT ![t] = "crashed"] /\ stale' = stale
       \/ Return(t)
    /\ mutex_' = IF mutex_ = t THEN Free ELSE mutex_

FirstPc ==
    CASE strategy = "turnstile" -> "in1"
      [] strategy = "native" -> "inc"
      [] strategy = "condvar" -> "lock"

\* Mutant: Wait() without the IsValid() test.
WaitActsUnchecked == strategy = "turnstile" => thread_count_ > 1

\* Whether Wait() does anything: `IsValid() && thread_count_ > 1` (line 87),
\* `IsValid()` (lines 131, 175).
WaitActs == IsValid /\ (strategy = "turnstile" => thread_count_ > 1)

\* Thread t calls Wait().
Call(t) ==
    /\ t \in Participants
    /\ pc[t] = "idle"
    /\ round[t] < plan
    /\ SetBit(t)
    /\ IF WaitActs
         THEN pc' = [pc EXCEPT ![t] = FirstPc] /\ stale' = stale
         ELSE pc' = pc /\ stale' = (stale \/ ~(Participants \subseteq shared'[round'[t]]))
    /\ UNCHANGED <<config, counters, sems, barrier_, mutex_, dpc, live, fault,
                   releases>>

\* ------------------------------------------------- turnstile (lines 86-108)
\* ReleaseSemaphore(turnstile, n, NULL): adds n tokens; fails, adding none,
\* when that would exceed the maximum count thread_count_ (lines 70-71).
\* Variant of ReleaseSemaphore: one token more than asked for is released.
ReleaseSemaphoreOneMore(tokens, n) ==
    IF tokens + n + 1 <= thread_count_ THEN tokens + n + 1 ELSE tokens

ReleaseSemaphore(tokens, n) ==
    IF tokens + n <= thread_count_ THEN tokens + n ELSE tokens

\* Mutant: the limit test of WaitInternal is off by one.
ReachesOffByOne(increment, limit) == wait_count_ + increment = limit - 1

\* `(wait_count_ += increment) == limit` (line 98), the test.
Reaches(increment, limit) == wait_count_ + increment = limit

\* WaitInternal(1, thread_count_, turnstile1_): count the arrival; the
\* thread that reaches thread_count_ releases thread_count_ - 1 tokens.
Arrive1(t) ==
    /\ strategy = "turnstile"
    /\ pc[t] = "in1"
    /\ wait_count_' = wait_count_ + 1
    /\ IF Reaches(1, thread_count_)
         THEN IF "turnstile1_" \in live
                THEN /\ turnstile1_' = ReleaseSemaphore(turnstile1_, thread_count_ - 1)
                     /\ pc' = [pc EXCEPT ![t] = "in2"]
                     /\ releases' = releases + 1
                     /\ UNCHANGED <<fault, stale, mutex_>>
                ELSE Misuse(t) /\ UNCHANGED <<turnstile1_, releases>>
         ELSE /\ pc' = [pc EXCEPT ![t] = "w1"]
              /\ UNCHANGED <<turnstile1_, releases, fault, stale, mutex_>>
    /\ UNCHANGED <<config, exit_count_, waiting_count_, turnstile2_, barrier_,
                   dpc, live, round, shared>>

\* Variant of Pass1: the wait on turnstile1_ is satisfied by a token but
\* leaves it on the semaphore.
Pass1KeepsToken(t) ==
    /\ strategy = "turnstile"
    /\ pc[t] = "w1"
    /\ IF "turnstile1_" \in live
         THEN /\ turnstile1_ > 0
              /\ pc' = [pc EXCEPT ![t] = "in2"]
              /\ UNCHANGED <<turnstile1_, fault, stale, mutex_>>
         ELSE Misuse(t) /\ UNCHANGED turnstile1_
    /\ UNCHANGED <<config, counters, turnstile2_, barrier_, dpc, live,
                   releases, round, shared>>

\* WaitForSingleObject(turnstile1_, INFINITE) takes one token.
Pass1(t) ==
    /\ strategy = "turnstile"
    /\ pc[t] = "w1"
    /\ IF "turnstile1_" \in live
         THEN /\ turnstile1_ > 0
              /\ turnstile1_' = turnstile1_ - 1
              /\ pc' = [pc EXCEPT ![t] = "in2"]
              /\ UNCHANGED <<fault, stale, mutex_>>
         ELSE Misuse(t) /\ UNCHANGED turnstile1_
    /\ UNCHANGED <<config, counters, turnstile2_, barrier_, dpc, live,
                   releases, round, shared>>

\* WaitInternal(-1, 0, turnstile2_): count the departure from the first
\* turnstile; the thread that reaches 0 releases thread_count_ - 1 tokens
\* and returns from Wait().
Arrive2(t) ==
    /\ strategy = "turnstile"
    /\ pc[t] = "in2"
    /\ wait_count_' = wait_count_ - 1
    /\ IF Reaches(-1, 0)
         THEN IF "turnstile2_" \in live
                THEN /\ turnstile2_' = ReleaseSemaphore(turnstile2_, thread_count_ - 1)
                     /\ Return(t)
                     /\ UNCHANGED <<fault, mutex_>>
                ELSE Misuse(t) /\ UNCHANGED turnstile2_
         ELSE /\ pc' = [pc EXCEPT ![t] = "w2"]
              /\ UNCHANGED <<turnstile2_, fault, stale, mutex_>>
    /\ UNCHANGED <<config, exit_count_, waiting_count_, turnstile1_, barrier_,
                   dpc, live, releases, round, shared>>

\* WaitForSingleObject(turnstile2_, INFINITE) takes one token; Wait() returns.
Pass2(t) ==
    /\ strategy = "turnstile"
    /\ pc[t] = "w2"
    /\ IF "turnstile2_" \in live
         THEN /\ turnstile2_ > 0
              /\ turnstile2_' = turnstile2_ - 1
              /\ Return(t)
              /\ UNCHANGED <<fault, mutex_>>
         ELSE Misuse(t) /\ UNCHANGED turnstile2_
    /\ UNCHANGED <<config, counters, turnstile1_, barrier_, dpc, live,
                   releases, round, shared>>

\* --------------------------------------------------- native (lines 130-136)
\* ++waiting_count_
Inc(t) ==
    /\ strategy = "native"
    /\ pc[t] = "inc"
    /\ waiting_count_' = waiting_count_ + 1
    /\ pc' = [pc EXCEPT ![t] = "bwait"]
    /\ UNCHANGED <<config, wait_count_, exit_count_, sems, barrier_, mutex_,
                   dpc, live, fault, releases, harness>>

\* pthread_barrier_wait(&barrier_), entry: the call that completes the count
\* releases every thread blocked in the barrier and resets it.
BarrierEnter(t) ==
    /\ strategy = "native"
    /\ pc[t] = "bwait"
    /\ IF "barrier_" \in live
         THEN /\ IF barrier_ + 1 = thread_count_
                   THEN /\ barrier_' = 0
                        /\ releases' = releases + 1
                        /\ pc' = [u \in Threads |->
                                    IF u = t THEN "dec"
                                    ELSE IF pc[u] = "bblocked" THEN "bgo"
                                    ELSE pc[u]]
                   ELSE /\ barrier_' = barrier_ + 1
                        /\ releases' = releases
                        /\ pc' = [pc EXCEPT ![t] = "bblocked"]
              /\ UNCHANGED <<fault, stale, mutex_>>
         ELSE Misuse(t) /\ UNCHANGED <<barrier_, releases>>
    /\ UNCHANGED <<config, counters, sems, dpc, live, round, shared>>

\* pthread_barrier_wait(&barrier_), exit of a released thread.
BarrierLeave(t) ==
    /\ strategy = "native"
    /\ pc[t] = "bgo"
    /\ IF "barrier_" \in live
         THEN pc' = [pc EXCEPT ![t] = "dec"] /\ UNCHANGED <<fault, stale, mutex_>>
         ELSE Misuse(t)
    /\ UNCHANGED <<config, counters, sems, barrier_, dpc, live, releases,
                   round, shared>>

\* --waiting_count_; Wait() returns.
Dec(t) ==
    /\ strategy = "native"
    /\ pc[t] = "dec"
    /\ waiting_count_' = waiting_count_ - 1
    /\ Return(t)
    /\ UNCHANGED <<config, wait_count_, exit_count_, sems, barrier_, mutex_,
                   dpc, live, fault, releases, round, shared>>

\* -------------------------------------------------- condvar (lines 174-195)
\* pthread_mutex_lock(&mutex_)
CvLock(t) ==
    /\ strategy = "condvar"
    /\ pc[t] = "lock"
    /\ IF "mutex_" \in live
         THEN /\ mutex_ = Free
              /\ mutex_' = t
              /\ pc' = [pc EXCEPT ![t] = "arrive"]
              /\ UNCHANGED <<fault, stale>>
         ELSE Misuse(t)
    /\ UNCHANGED <<config, counters, sems, barrier_, dpc, live, releases,
                   round, shared>>

\* Mutant: the threshold thread forgets pthread_cond_broadcast(&condition_).
ThresholdNoBroadcast(t) ==
    /\ wait_count_' = 0
    /\ exit_count_' = thread_count_ + 1
    /\ releases' = releases + 1
    /\ pc' = [pc EXCEPT ![t] = "exit"]
    /\ UNCHANGED mutex_

\* Mutant: exit_count_ is armed with thread_count_ instead of
\* thread_count_ + 1.
ThresholdExitShort(t) ==
    /\ wait_count_' = 0
    /\ exit_count_' = thread_count_
    /\ releases' = releases + 1
    /\ pc' = [u \in Threads |->
                IF u = t THEN "exit"
                ELSE IF pc[u] = "cwait" THEN "cwoken"
                ELSE pc[u]]
    /\ UNCHANGED mutex_

\* Mutant: the threshold thread does not reset wait_count_.
ThresholdNoReset(t) ==
    /\ wait_count_' = wait_count_ + 1
    /\ exit_count_' = thread_count_ + 1
    /\ releases' = releases + 1
    /\ pc' = [u \in Threads |->
                IF u = t THEN "exit"
                ELSE IF pc[u] = "cwait" THEN "cwoken"
                ELSE pc[u]]
    /\ UNCHANGED mutex_

\* The threshold branch of `if (++wait_count_ == thread_count_)`: reset the
\* counter, arm exit_count_, pthread_cond_broadcast(&condition_).
Threshold(t) ==
    /\ wait_count_' = 0
    /\ exit_count_' = thread_count_ + 1
    /\ releases' = releases + 1
    /\ pc' = [u \in Threads |->
                IF u = t THEN "exit"
                ELSE IF pc[u] = "cwait" THEN "cwoken"
                ELSE pc[u]]
    /\ UNCHANGED mutex_

\* The other branch: pthread_cond_wait(&condition_, &mutex_) releases the
\* mutex and blocks.
CondWait(t) ==
    /\ wait_count_' = wait_count_ + 1
    /\ pc' = [pc EXCEPT ![t] = "cwait"]
    /\ mutex_' = Free
    /\ UNCHANGED <<exit_count_, releases>>

\* Lines 178-186, with mutex_ held.
CvArrive(t) ==
    /\ strategy = "condvar"
    /\ pc[t] = "arrive"
    /\ IF "condition_" \in live
         THEN /\ IF wait_count_ + 1 = thread_count_
                   THEN Threshold(t)
                   ELSE CondWait(t)
              /\ UNCHANGED <<fault, stale>>
         ELSE Misuse(t) /\ UNCHANGED <<wait_count_, exit_count_, releases>>
    /\ UNCHANGED <<config, waiting_count_, sems, barrier_, dpc, live, round,
                   shared>>

\* pthread_cond_wait may return without any broadcast (POSIX).
CvSpurious(t) ==
    /\ strategy = "condvar"
    /\ pc[t] = "cwait"
    /\ pc' = [pc EXCEPT ![t] = "cwoken"]
    /\ UNCHANGED <<config, counters, sems, barrier_, mutex_, dpc, live, fault,
                   releases, harness>>

\* pthread_cond_wait returns with mutex_ locked again.
CvReacquire(t) ==
    /\ strategy = "condvar"
    /\ pc[t] = "cwoken"
    /\ IF "mutex_" \in live
         THEN /\ mutex_ = Free
              /\ mutex_' = t
              /\ pc' = [pc EXCEPT ![t] = "exit"]
              /\ UNCHANGED <<fault, stale>>
         ELSE Misuse(t)
    /\ UNCHANGED <<config, counters, sems, barrier_, dpc, live, releases,
                   round, shared>>

\* `if (--exit_count_ == 0) pthread_cond_broadcast(&exit_condition_)`
CvExit(t) ==
    /\ strategy = "condvar"
    /\ pc[t] = "exit"
    /\ exit_count_' = exit_count_ - 1
    /\ IF exit_count_' = 0
         THEN IF "exit_condition_" \in live
                THEN /\ dpc' = IF dpc = "ewait" THEN "ewoken" ELSE dpc
                     /\ pc' = [pc EXCEPT ![t] = "unlock"]
                     /\ UNCHANGED <<fault, stale, mutex_>>
                ELSE Misuse(t) /\ dpc' = dpc
         ELSE /\ pc' = [pc EXCEPT ![t] = "unlock"]
              /\ UNCHANGED <<dpc, fault, stale, mutex_>>
    /\ UNCHANGED <<config, wait_count_, waiting_count_, sems, barrier_, live,
                   releases, round, shared>>

\* pthread_mutex_unlock(&mutex_); Wait() returns.
CvUnlock(t) ==
    /\ strategy = "condvar"
    /\ pc[t] = "unlock"
    /\ IF "mutex_" \in live
         THEN mutex_' = Free /\ Return(t) /\ UNCHANGED fault
         ELSE Misuse(t)
    /\ UNCHANGED <<config, counters, sems, barrier_, dpc, live, releases,
                   round, shared>>

\* --------------------------------------------------------------- destructor
\* When the owner runs ~Barrier(): after joining every participant, or as a
\* participant that has returned from its last Wait().
Finished(t) == pc[t] = "idle" /\ round[t] = plan

MayDestroy ==
    IF owner = "joins"
      THEN \A t \in Participants : Finished(t)
      ELSE \E t \in Participants : Finished(t)

FirstDpc ==
    CASE strategy = "turnstile" -> "close2"
      [] strategy = "native" -> "spin"
      [] strategy = "condvar" -> "lock"

\* ~Barrier() is entered; `if (IsValid())` (lines 76, 122, 161).
DtorStart ==
    /\ dpc = "idle"
    /\ MayDestroy
    /\ dpc' = IF IsValid THEN FirstDpc ELSE "done"
    /\ UNCHANGED <<config, pc, counters, sems, barrier_, mutex_, live, fault,
                   releases, harness>>

\* The primitive destroyed at each position and the position after it:
\* CloseHandle(turnstile2_), CloseHandle(turnstile1_) (lines 81-82);
\* pthread_barrier_destroy (line 126); pthread_cond_destroy twice and
\* pthread_mutex_destroy (lines 168-170).
Destroys(p) ==
    CASE p = "close2" -> <<"turnstile2_", "close1">>
      [] p = "close1" -> <<"turnstile1_", "done">>
      [] p = "destroy_barrier" -> <<"barrier_", "done">>
      [] p = "destroy_condition" -> <<"condition_", "destroy_exit_condition">>
      [] p = "destroy_exit_condition" -> <<"exit_condition_", "destroy_mutex">>
      [] p = "destroy_mutex" -> <<"mutex_", "done">>

DestroyPcs == {"close2", "close1", "destroy_barrier", "destroy_condition",
               "destroy_exit_condition", "destroy_mutex"}

DtorDestroy ==
    /\ dpc \in DestroyPcs
    /\ live' = live \ {Destroys(dpc)[1]}
    /\ dpc' = Destroys(dpc)[2]
    /\ UNCHANGED <<config, pc, counters, sems, barrier_, mutex_, fault,
                   releases, harness>>

\* Variant of DtorSpin: the destructor goes on to pthread_barrier_destroy
\* without waiting for waiting_count_ to reach 0.
DtorSpinNoWait ==
    /\ dpc = "spin"
    /\ dpc' = "destroy_barrier"
    /\ UNCHANGED <<config, pc, counters, sems, barrier_, mutex_, live, fault,
                   releases, harness>>

\* `while (waiting_count_ != 0) {}` (line 125) ends.
DtorSpin ==
    /\ dpc = "spin"
    /\ waiting_count_ = 0
    /\ dpc' = "destroy_barrier"
    /\ UNCHANGED <<config, pc, counters, sems, barrier_, mutex_, live, fault,
                   releases, harness>>

\* pthread_mutex_lock(&mutex_) (line 162)
DtorLock ==
    /\ dpc = "lock"
    /\ mutex_ = Free
    /\ mutex_' = Owner
    /\ dpc' = "check"
    /\ UNCHANGED <<config, pc, counters, sems, barrier_, live, fault, releases,
                   harness>>

\* `if (thread_count_ > 1 && --exit_count_)
\*    pthread_cond_wait(&exit_condition_, &mutex_)` (lines 163-166)
DtorCheck ==
    /\ dpc = "check"
    /\ IF thread_count_ > 1
         THEN /\ exit_count_' = exit_count_ - 1
              /\ IF exit_count_' # 0
                   THEN dpc' = "ewait" /\ mutex_' = Free
                   ELSE dpc' = "unlock" /\ mutex_' = mutex_
         ELSE dpc' = "unlock" /\ UNCHANGED <<exit_count_, mutex_>>
    /\ UNCHANGED <<config, pc, wait_count_, waiting_count_, sems, barrier_,
                   live, fault, releases, harness>>

\* pthread_cond_wait(&exit_condition_) may return without any broadcast.
DtorSpurious ==
    /\ dpc = "ewait"
    /\ dpc' = "ewoken"
    /\ UNCHANGED <<config, pc, counters, sems, barrier_, mutex_, live, fault,
                   releases, harness>>

\* pthread_cond_wait(&exit_condition_) returns with mutex_ locked again.
DtorReacquire ==
    /\ dpc = "ewoken"
    /\ mutex_ = Free
    /\ mutex_' = Owner
    /\ dpc' = "unlock"
    /\ UNCHANGED <<config, pc, counters, sems, barrier_, live, fault, releases,
                   harness>>

\* pthread_mutex_unlock(&mutex_) (line 167)
DtorUnlock ==
    /\ dpc = "unlock"
    /\ mutex_' = Free
    /\ dpc' = "destroy_condition"
    /\ UNCHANGED <<config, pc, counters, sems, barrier_, live, fault, releases,
                   harness>>

\* ------------------------------------------------------------ specification
Next ==
    \/ \E t \in Threads : Call(t)
    \/ \E t \in Threads : Arrive1(t)
    \/ \E t \in Threads : Pass1(t)
    \/ \E t \in Threads : Arrive2(t)
    \/ \E t \in Threads : Pass2(t)
    \/ \E t \in Threads : Inc(t)
    \/ \E t \in Threads : BarrierEnter(t)
    \/ \E t \in Threads : BarrierLeave(t)
    \/ \E t \in Threads : Dec(t)
    \/ \E t \in Threads : CvLock(t)
    \/ \E t \in Threads : CvArrive(t)
    \/ \E t \in Threads : CvSpurious(t)
    \/ \E t \in Threads : CvReacquire(t)
    \/ \E t \in Threads : CvExit(t)
    \/ \E t \in Threads : CvUnlock(t)
    \/ DtorStart
    \/ DtorDestroy
    \/ DtorSpin
    \/ DtorLock
    \/ DtorCheck
    \/ DtorSpurious
    \/ DtorReacquire
    \/ DtorUnlock

Spec == Init /\ [][Next]_vars

\* One thread's steps, without the spurious return of pthread_cond_wait.
ThreadNext(t) ==
    \/ Call(t)
    \/ Arrive1(t) \/ Pass1(t) \/ Arrive2(t) \/ Pass2(t)
    \/ Inc(t) \/ BarrierEnter(t) \/ BarrierLeave(t) \/ Dec(t)
    \/ CvLock(t) \/ CvArrive(t) \/ CvReacquire(t) \/ CvExit(t) \/ CvUnlock(t)

DtorNext ==
    \/ DtorStart \/ DtorDestroy \/ DtorSpin \/ DtorLock \/ DtorCheck
    \/ DtorReacquire \/ DtorUnlock

\* The OS scheduler runs every thread that can take a step; a spurious
\* return of pthread_cond_wait is allowed, never promised.
Fairness ==
    /\ \A t \in Threads : WF_vars(ThreadNext(t))
    /\ WF_vars(DtorNext)

FairSpec == Spec /\ Fairness

\* The programs in which every participant calls Wait() once and the owner
\* destroys the barrier after joining them.
InitOneCall == Init /\ plan = 1 /\ owner = "joins"

FairSpecOneCall == InitOneCall /\ [][Next]_vars /\ Fairness

\* The same program on a host whose pthread_cond_wait never returns
\* spuriously.
NextNoSpurious ==
    \/ \E t \in Threads : ThreadNext(t)
    \/ DtorNext

SpecNoSpurious == Init /\ [][NextNoSpurious]_vars

FairSpecNoSpurious == SpecNoSpurious /\ Fairness

\* ------------------------------------------------------------------- claims
InWait(t) == pc[t] \notin {"idle", "crashed"}

AllReturned == \A t \in Participants : Finished(t)

\* Thread t is back from its round[t]-th Wait() although some participant
\* has not yet called Wait() for that round.
ReturnedEarly(t) ==
    /\ t \in Participants
    /\ pc[t] = "idle"
    /\ round[t] >= 1
    /\ \E u \in Participants : round[u] < round[t]

\* C1: with thread_count_ >= 2 and exactly thread_count_ threads, no thread
\* is back from the Wait() of a round before every participant has called
\* Wait() for that round.
C1_NoEarlyRelease ==
    thread_count_ >= 2 => \A t \in Threads : ~ReturnedEarly(t)

\* C2: for thread_count_ >= 1, when each of the thread_count_ threads calls
\* Wait() once and the barrier is destroyed only after they are joined,
\* every call eventually returns (checked under FairSpecOneCall).
C2_NoHang == thread_count_ >= 1 => <>(AllReturned /\ plan = 1)

\* C2 witness: a round of three threads, one call each, has completed.
C2_Witness ==
    /\ thread_count_ = MaxThreads
    /\ plan = 1
    /\ owner = "joins"
    /\ releases = 1
    /\ AllReturned

\* Calls of Wait() by t that have returned.
Completed(t) == IF pc[t] = "idle" THEN round[t] ELSE round[t] - 1

\* Every returned call has a threshold event of its own, and the k-th
\* threshold event happens only when every participant has called Wait()
\* k times.
RoundsInStep ==
    /\ \A t \in Participants : Completed(t) <= releases
    /\ \A t \in Participants : releases <= round[t]

\* No step is left but a spurious return of pthread_cond_wait.
Quiescent == ~ENABLED NextNoSpurious

\* C3: the same thread_count_ threads call Wait() `plan` times each on one
\* Barrier: every round releases its thread_count_ threads and no others,
\* each call returns for the threshold event of its own round, and the
\* program does not come to rest before all rounds are complete.
C3_Reusability ==
    (thread_count_ >= 2 /\ owner = "joins") =>
        /\ RoundsInStep
        /\ Quiescent => (AllReturned /\ releases = plan)

\* C3, the completion of all rounds alone, as a property of fair behaviours.
C3_RoundsComplete ==
    (thread_count_ >= 2 /\ owner = "joins") =>
        <>(AllReturned /\ releases = plan)

\* Positions of Wait() before the caller has been released.
Unreleased == {"in1", "w1", "inc", "bwait", "bblocked", "lock", "arrive",
               "cwait"}

At(p) == {t \in Participants : pc[t] = p}

\* C4: a thread that calls Wait() again while threads of the round before
\* are still on their way out is counted for the next round only: it stays
\* unreleased until every participant has arrived for that round, and the
\* wake-ups of the round before (tokens, broadcast) go to that round's
\* threads.
C4_RoundSeparation ==
    thread_count_ >= 2 =>
        /\ \A t \in Participants : releases <= round[t]
        /\ \A t \in Participants :
              (InWait(t) /\ round[t] > releases) => pc[t] \in Unreleased
        /\ \A t \in Participants :
              pc[t] \in {"cwoken", "bgo"} => round[t] <= releases
        /\ ("turnstile1_" \in live /\ turnstile1_ > 0) =>
              /\ turnstile1_ = Cardinality(At("w1"))
              /\ \A t \in At("w1") : round[t] = releases
        /\ ("turnstile2_" \in live /\ turnstile2_ > 0) =>
              /\ turnstile2_ = Cardinality(At("w2"))
              /\ \A t \in At("w2") : round[t] = releases

\* The primitives a thread at position p of Wait() is inside of or has
\* still to call.
StillUses(p) ==
    CASE p \in {"in1", "w1"} -> {"turnstile1_", "turnstile2_"}
      [] p \in {"in2", "w2"} -> {"turnstile2_"}
      [] p \in {"inc", "bwait", "bblocked", "bgo"} -> {"barrier_"}
      [] p \in {"lock", "arrive", "cwait", "cwoken"} -> {"condition_", "mutex_"}
      [] p \in {"exit", "unlock"} -> {"mutex_"}
      [] OTHER -> {}

\* C5: in every strategy the destructor releases no primitive that a thread
\* inside Wait() still uses, and no thread touches a destroyed primitive.
C5_TeardownSafety ==
    IsValid =>
        /\ ~fault
        /\ \A t \in Participants : StillUses(pc[t]) \subseteq live

\* C6: on a Barrier created with participant count 0, Wait() by any number
\* of threads never leaves the caller inside Wait(), changes no counter and
\* touches no primitive, and the destructor does not block.
C6_InvalidBarrier ==
    thread_count_ = 0 =>
        /\ ~IsValid
        /\ \A t \in Threads : pc[t] = "idle"
        /\ wait_count_ = 0 /\ exit_count_ = 1 /\ waiting_count_ = 0
        /\ turnstile1_ = 0 /\ turnstile2_ = 0 /\ barrier_ = 0
        /\ mutex_ = Free
        /\ live = {}
        /\ ~fault
        /\ dpc \in {"idle", "done"}

\* C6 witness: every thread has made all its calls on the invalid barrier
\* and the destructor has run.
C6_Witness ==
    /\ thread_count_ = 0
    /\ plan = MaxRounds
    /\ \A t \in Threads : round[t] = plan
    /\ dpc = "done"

\* Positions where a caller is blocked on a host primitive.
Blocked == {"w1", "w2", "bblocked", "bgo", "cwait", "cwoken"}

\* C7: on a Barrier created with participant count 1 no call of Wait()
\* blocks; after each call the barrier is in its initial idle state; the
\* destructor does not block.
C7_SingleParticipant ==
    thread_count_ = 1 =>
        /\ \A t \in Threads : pc[t] \notin Blocked
        /\ (\A t \in Threads : pc[t] = "idle") =>
              /\ wait_count_ = 0 /\ exit_count_ = 1 /\ waiting_count_ = 0
              /\ turnstile1_ = 0 /\ turnstile2_ = 0 /\ barrier_ = 0
              /\ mutex_ \in {Free, Owner}
        /\ dpc \notin {"ewait", "ewoken"}
        /\ dpc = "spin" => waiting_count_ = 0
        /\ dpc = "lock" => mutex_ = Free
        /\ \A t \in Threads : pc[t] = "lock" => mutex_ = Free
        /\ ~fault

\* C7 witness: the single participant is back from its last call, having
\* passed a threshold each time where Wait() acts, and the destructor is done.
C7_Witness ==
    /\ thread_count_ = 1
    /\ plan = MaxRounds
    /\ round[1] = plan /\ pc[1] = "idle"
    /\ strategy # "turnstile" => releases = plan
    /\ dpc = "done"

\* C8: in the two counter-based strategies the arrival counter stays within
\* 0 .. thread_count_.
C8_CounterBound ==
    strategy \in {"turnstile", "condvar"} =>
        (0 <= wait_count_ /\ wait_count_ <= thread_count_)

\* C8 witness: in a second round the counter stands just below the limit.
C8_Witness ==
    /\ thread_count_ = MaxThreads
    /\ strategy \in {"turnstile", "condvar"}
    /\ releases = 1
    /\ wait_count_ = thread_count_ - 1
    /\ \A t \in Participants : round[t] = 2

\* A step that counts an arrival: `wait_count_ += 1` of the first
\* WaitInternal, or `++wait_count_` under the mutex.
Arrival ==
    \E t \in Threads :
        \/ pc[t] = "in1" /\ pc'[t] \in {"w1", "in2"}
        \/ pc[t] = "arrive" /\ pc'[t] \in {"cwait", "exit"}

ReleaseStep == releases' = releases + 1

CounterBased == strategy \in {"turnstile", "condvar"}

\* C9 as stated: in both counter-based strategies a release happens once,
\* at the arrival with which the counter reaches thread_count_, and that
\* same step leaves the counter at 0.
C9_ReleaseResets ==
    [][CounterBased =>
          /\ releases' \in {releases, releases + 1}
          /\ Arrival => (ReleaseStep <=> wait_count_ + 1 = thread_count_)
          /\ ReleaseStep => (Arrival /\ wait_count_' = 0)]_vars

\* C9 amended: a release happens once, at the arrival with which the
\* counter reaches thread_count_; the condvar strategy resets the counter to
\* 0 in that step; the turnstile strategy leaves it at thread_count_, counts
\* it down to 0 in the second phase, and every arrival finds the counter
\* equal to the number of threads waiting at the first turnstile, so the
\* next arrival after a release is counted as the first of its round.
C9_ReleaseTransition ==
    [][CounterBased =>
          /\ releases' \in {releases, releases + 1}
          /\ Arrival => (ReleaseStep <=> wait_count_ + 1 = thread_count_)
          /\ ReleaseStep =>
                /\ Arrival
                /\ wait_count_' = IF strategy = "condvar" THEN 0 ELSE thread_count_
          /\ (strategy = "turnstile" /\ Arrival) =>
                wait_count_ = Cardinality(At("w1"))]_vars

\* C9 witness: a round of the turnstile strategy has been released and the
\* counter still stands at thread_count_.
C9_Witness ==
    /\ strategy = "turnstile"
    /\ thread_count_ = MaxThreads
    /\ releases = 2
    /\ wait_count_ = thread_count_

\* C10: every thread that set its bit, called Wait() and then read the
\* shared integer of the round found all participants' bits set.
C10_Visibility == thread_count_ >= 1 => ~stale

\* Threads that have been let out of pthread_cond_wait(&condition_), or have
\* taken the threshold branch, and have not yet run `--exit_count_`.
Undecremented == {t \in Participants : pc[t] \in {"cwoken", "exit"}}

\* The destructor has run its own `--exit_count_` (line 163).
DtorTookSlot ==
    thread_count_ > 1 /\ dpc \notin {"idle", "lock", "check"}

\* Slot accounting of the exit handshake: exit_count_ is 1 plus one slot for
\* every thread that has still to run `--exit_count_`, minus the destructor's
\* slot once taken.  It holds on a host without spurious wake-ups.
C11_SlotAccounting ==
    (strategy = "condvar" /\ thread_count_ >= 2) =>
        exit_count_ = 1 + Cardinality(Undecremented)
                        - (IF DtorTookSlot THEN 1 ELSE 0)

\* C11: exit handshake of the condvar strategy.  A destructor that runs
\* while threads let out of the rendezvous have not yet decremented
\* exit_count_ is not past its wait on exit_condition_ (and so not at
\* pthread_cond_destroy / pthread_mutex_destroy) before every one of them
\* has decremented.
C11_ExitHandshake ==
    (strategy = "condvar" /\ thread_count_ >= 2) =>
        (dpc \in {"ewoken", "unlock"} \cup DestroyPcs \cup {"done"} =>
            Undecremented = {})

\* The barrier is draining: every participant has started its last call, a
\* threshold has released the round, some thread is still inside Wait() and
\* none of the threads inside Wait() is still ahead of the release.
Draining ==
    /\ \A t \in Participants : round[t] = plan
    /\ releases >= 1
    /\ \E t \in Participants : InWait(t)
    /\ \A t \in Participants : pc[t] \notin Unreleased

\* C12: teardown liveness.  In the strategies whose destructor waits
\* (pthread_barrier and mutex + condition variables), a destructor invoked
\* while the barrier is draining eventually completes under fair scheduling.
C12_TeardownCompletes ==
    (/\ strategy \in {"native", "condvar"}
     /\ thread_count_ >= 2
     /\ dpc = FirstDpc
     /\ Draining) ~> (dpc = "done")

\* Positions of a thread between `++waiting_count_` (line 132) and
\* `--waiting_count_` (line 134) of the pthread_barrier strategy.
InFlight == {"bwait", "bblocked", "bgo", "dec"}

\* C13: in the pthread_barrier strategy waiting_count_ is the number of
\* threads that have incremented it and not yet decremented it, it stays in
\* 0 .. thread_count_, and the destructor is at or past
\* pthread_barrier_destroy only when no thread is between its increment and
\* its decrement.
C13_WaitingCount ==
    strategy = "native" =>
        /\ waiting_count_ =
              Cardinality({t \in Participants : pc[t] \in InFlight})
        /\ waiting_count_ \in 0 .. thread_count_
        /\ (dpc \in {"destroy_barrier", "done"} \/ "barrier_" \notin live) =>
              \A t \in Participants : pc[t] \notin InFlight

\* The destructor spins on waiting_count_ while a thread that has been let
\* out of pthread_barrier_wait has not yet decremented it.
C13_Witness ==
    /\ strategy = "native"
    /\ thread_count_ >= 2
    /\ dpc = "spin"
    /\ waiting_count_ > 0
    /\ \E t \in Participants : pc[t] = "dec"

\* Number of rounds whose first turnstile thread t has passed, and number
\* of rounds whose second turnstile it has passed (the thread that releases
\* turnstile2_ passes it by returning).
Passed1(t) == IF pc[t] \in {"in1", "w1"} THEN round[t] - 1 ELSE round[t]

Passed2(t) == Completed(t)

\* Token releases of one step of the double-turnstile strategy: tokens are
\* put on turnstile1_ only by the threshold arrival, thread_count_ - 1 of
\* them; tokens are put on turnstile2_ only by the departure that brings
\* wait_count_ back to 0, thread_count_ - 1 of them, when every participant
\* is past turnstile1_.
TurnstileStep ==
    /\ ReleaseStep <=> turnstile1_' > turnstile1_
    /\ turnstile1_' > turnstile1_ =>
          /\ turnstile1_' - turnstile1_ = thread_count_ - 1
          /\ wait_count_' = thread_count_
    /\ turnstile2_' > turnstile2_ =>
          /\ turnstile2_' - turnstile2_ = thread_count_ - 1
          /\ wait_count_' = 0
          /\ \A u \in Participants : pc[u] \in {"in2", "w2"}

\* C14: ordering of the double turnstile.  The threshold arrival releases
\* exactly thread_count_ - 1 tokens on turnstile1_; turnstile2_ is released
\* by the departure that brings wait_count_ to 0, after all participants of
\* the round have passed turnstile1_; and no thread has passed turnstile2_
\* of a round that some thread has not passed turnstile1_ of.
C14_TurnstileOrder ==
    /\ []((strategy = "turnstile" /\ thread_count_ >= 2) =>
            \A t, u \in Participants : Passed2(t) <= Passed1(u))
    /\ [][(strategy = "turnstile" /\ thread_count_ >= 2) => TurnstileStep]_vars

\* A thread has passed turnstile2_ of a round while another, having passed
\* turnstile1_ of that round, still waits on turnstile2_.
C14_Witness ==
    /\ strategy = "turnstile"
    /\ thread_count_ = MaxThreads
    /\ \E t, u \in Participants :
          /\ pc[t] = "idle" /\ round[t] = MaxRounds
          /\ pc[u] = "w2" /\ round[u] = MaxRounds
    /\ turnstile2_ > 0
    /\ releases = MaxRounds

\* No thread is inside Wait().
AtRest == \A t \in Participants : pc[t] = "idle"

\* C15: token counts of the double-turnstile strategy.  Each semaphore
\* holds between 0 and thread_count_ - 1 tokens; a release of
\* thread_count_ - 1 tokens that is about to happen fits under the maximum
\* thread_count_, so ReleaseSemaphore does not fail; and with no thread
\* inside Wait() wait_count_ is 0 and so is the token count of each
\* semaphore that has not been closed.
C15_TokenBounds ==
    (strategy = "turnstile" /\ IsValid) =>
        /\ turnstile1_ \in 0 .. thread_count_ - 1
        /\ turnstile2_ \in 0 .. thread_count_ - 1
        /\ (At("in1") # {} /\ Reaches(1, thread_count_)
               /\ "turnstile1_" \in live) =>
              turnstile1_ + thread_count_ - 1 <= thread_count_
        /\ (At("in2") # {} /\ Reaches(-1, 0) /\ "turnstile2_" \in live) =>
              turnstile2_ + thread_count_ - 1 <= thread_count_
        /\ AtRest =>
              /\ wait_count_ = 0
              /\ "turnstile1_" \in live => turnstile1_ = 0
              /\ "turnstile2_" \in live => turnstile2_ = 0

\* In the second round turnstile2_ holds its largest number of tokens.
C15_Witness ==
    /\ strategy = "turnstile"
    /\ thread_count_ = MaxThreads
    /\ releases = MaxRounds
    /\ "turnstile2_" \in live
    /\ turnstile2_ = thread_count_ - 1

\* C16: range and rest value of exit_count_ in the condvar strategy.
\* exit_count_ stays in 0 .. thread_count_ + 1; it is 1 whenever no thread
\* let out of the rendezvous is still inside Wait() and the destructor has
\* not yet decremented it; and a destructor invoked after all Wait() calls
\* have returned does not block on exit_condition_.
C16_ExitCountRange ==
    (strategy = "condvar" /\ IsValid) =>
        /\ exit_count_ \in 0 .. thread_count_ + 1
        /\ (/\ \A t \in Participants :
                  pc[t] \notin {"cwoken", "exit", "unlock"}
            /\ ~DtorTookSlot) => exit_count_ = 1
        /\ owner = "joins" => dpc \notin {"ewait", "ewoken"}

\* Thread t has run `--exit_count_` in its current call of Wait(), or has
\* returned from it.
PastExit(t) == pc[t] = "unlock" \/ (pc[t] = "idle" /\ round[t] >= 1)

\* C17: in the condvar strategy a thread decrements exit_count_ and returns
\* from its k-th call of Wait() only after the k-th threshold has been
\* reached, spurious returns of pthread_cond_wait notwithstanding.
C17_OnlyByBroadcast ==
    (strategy = "condvar" /\ thread_count_ >= 2) =>
        \A t \in Participants : PastExit(t) => round[t] <= releases

====
